---- MODULE Spec2Model ----
(***************************************************************************)
(* One run of PineconeResultFilter.filter_by_categories                   *)
(* (src/src/search/pinecone_result_filter.py).  The searcher is an        *)
(* external collaborator: each of its responses is an arbitrary list of   *)
(* result records, possibly malformed, repeated, longer than top_k or     *)
(* outside the allow-list.  Every step of the model runs the code from    *)
(* one searcher interaction (or loop decision) to the next.               *)
(***************************************************************************)
EXTENDS Integers, Sequences, FiniteSets, TLC

VARIABLES
    category_order,    \* argument: sequence of category labels
    embeddings,        \* argument: category -> embedding (partial)
    final_count,       \* argument: <<>> for None, <<k>> for the integer k
    topic_filters,     \* argument: category -> non-empty filter spec (partial)
    pc,                \* position of the run in the function body
    i,                 \* loop index of line 114 (enumerate(..., start=2))
    candidate_mb_sns,  \* local: the candidate list
    call_log,          \* history: stage of every searcher call issued, in order
    last_call,         \* history: <<>> or <<arguments of the latest searcher call>>
    final_results,     \* local: the response to the final-ranking call (line 189)
    result,            \* the returned list of {mb_sn, score}
    raised,            \* "" or the exception that ended the run
    searcher_ok        \* history: did every response so far keep the searcher contract

vars == <<category_order, embeddings, final_count, topic_filters, pc, i,
          candidate_mb_sns, call_log, last_call, final_results, result,
          raised, searcher_ok>>

----------------------------------------------------------------------------
(* Bounds of the model *)

MaxResp == 2       \* longest searcher response
MaxFinal == 2      \* largest final_count

AllCategories == <<"basic", "income", "vehicle">>
\* values of final_count and lengths of the candidate list around the
\* thresholds of the search widths (2000 = 10 * 200, 10000 = 3 * 3333 + 1
\* = 2 * 5000), for the runs that stop at a searcher call
WideFinalCounts == {100, 200, 201, 1000}
CandidateLengths == {1, 2, 3333, 3334, 5000, 5001}
Ids == {"p1", "p2"}
Scores == {0, 1}

(* Program constants *)
WideCount == 10000        \* lines 56, 58, 62, 107, 132, 135, 184
MinInitialCount == 2000   \* line 64

----------------------------------------------------------------------------
(* Python values *)

None == <<>>
Some(x) == <<x>>
EmptyDict == <<>>

Max(a, b) == IF a >= b THEN a ELSE b
Min(a, b) == IF a <= b THEN a ELSE b

Range(s) == {s[n] : n \in DOMAIN s}

\* s[:n] for n >= 0
Take(s, n) == SubSeq(s, 1, Min(n, Len(s)))

\* r.get(key, default)
Get(r, key, default) == IF key \in DOMAIN r THEN r[key] ELSE default

\* truthiness of r.get("mb_sn")
HasMbSn(r) == Get(r, "mb_sn", "") /= ""

\* the identifiers of the records of a response that carry one
MbSnsOf(response) ==
    {response[n]["mb_sn"] : n \in {m \in DOMAIN response : "mb_sn" \in DOMAIN response[m]}}

\* a result record: either field may be missing.  The score of a record
\* without mb_sn is never read (lines 79-81, 155-157, 171-174, 198-200),
\* so one scored and one empty record stand for the records without mb_sn
Records ==
    [mb_sn : Ids, score : Scores] \cup [mb_sn : Ids]
        \cup {[score |-> 1], EmptyDict}

Responses == UNION {[1..n -> Records] : n \in 0..MaxResp}

----------------------------------------------------------------------------
(* dict: a sequence of <<key, value>> items in insertion order *)

DictKeys(d) == [n \in DOMAIN d |-> d[n][1]]

DictHas(d, k) == \E n \in DOMAIN d : d[n][1] = k

DictGet(d, k) == d[CHOOSE n \in DOMAIN d : d[n][1] = k][2]

\* d[k] = v: a new key is appended, an existing key keeps its position
DictPut(d, k, v) ==
    IF DictHas(d, k)
    THEN [n \in DOMAIN d |-> IF d[n][1] = k THEN <<k, v>> ELSE d[n]]
    ELSE Append(d, <<k, v>>)

\* list(OrderedDict.fromkeys(s)): first occurrences, in order
RECURSIVE FromKeys(_)
FromKeys(s) ==
    IF s = <<>> THEN <<>>
    ELSE LET init == FromKeys(SubSeq(s, 1, Len(s) - 1))
             x == s[Len(s)]
         IN IF x \in Range(init) THEN init ELSE Append(init, x)

\* insert item x (a pair whose second component is the sort key) into the
\* descending sequence s, behind every item whose key is >= the key of x
RECURSIVE InsertDesc(_, _)
InsertDesc(s, x) ==
    IF s = <<>> THEN <<x>>
    ELSE IF Head(s)[2] >= x[2]
         THEN <<Head(s)>> \o InsertDesc(Tail(s), x)
         ELSE <<x>> \o s

\* sorted(items, key=lambda x: x[1], reverse=True): stable, descending
RECURSIVE SortedDesc(_)
SortedDesc(items) ==
    IF items = <<>> THEN <<>>
    ELSE InsertDesc(SortedDesc(SubSeq(items, 1, Len(items) - 1)),
                    items[Len(items)])

\* The best-score loop of lines 78-84, 154-159, 170-174 and 197-203:
\*   for r in results:
\*       mb_sn = r.get("mb_sn", "")
\*       if <mb_sn passes the test>:            (mb_sn \in keep)
\*           score = r.get("score", 0.0)
\*           if mb_sn not in d or score > d[mb_sn]: d[mb_sn] = score
RECURSIVE BestScores(_, _, _)
BestScores(results, keep, d) ==
    IF results = <<>> THEN d
    ELSE LET r == Head(results)
             mb_sn == Get(r, "mb_sn", "")
             score == Get(r, "score", 0)
             d2 == IF mb_sn \in keep
                      /\ (~DictHas(d, mb_sn) \/ score > DictGet(d, mb_sn))
                   THEN DictPut(d, mb_sn, score)
                   ELSE d
         IN BestScores(Tail(results), keep, d2)

----------------------------------------------------------------------------
(* Stage 1, lines 47-111 *)

\* (topic_filters or {}).get(category, {})
FilterOf(category) == Get(topic_filters, category, EmptyDict)

\* bool(filter)
HasFilter(category) == DOMAIN FilterOf(category) /= {}

\* mutant of InitialCount: the floor of line 64 is dropped
InitialCountNoFloor(has_metadata_filter) ==
    IF final_count = None
    THEN WideCount
    ELSE IF has_metadata_filter
         THEN WideCount
         ELSE final_count[1] * 10

\* lines 53-64
InitialCount(has_metadata_filter) ==
    IF final_count = None
    THEN WideCount
    ELSE IF has_metadata_filter
         THEN WideCount
         ELSE Max(final_count[1] * 10, MinInitialCount)

\* lines 75-94: metadata-filtered seeding; `if mb_sn:` keeps every truthy id
SeedFiltered(first_results) ==
    LET truthy == {Get(first_results[n], "mb_sn", "") : n \in DOMAIN first_results}
                      \ {""}
        filtered_mb_sn_scores == BestScores(first_results, truthy, <<>>)
        sorted_filtered == SortedDesc(filtered_mb_sn_scores)
    IN DictKeys(sorted_filtered)

\* line 100: [r for r in first_results if r.get("mb_sn")]
WithMbSn(first_results) == SelectSeq(first_results, HasMbSn)

\* line 101: key=lambda x: x["score"] raises KeyError on a kept record
\* that has no score
SeedRaises(first_results) ==
    \E r \in Range(WithMbSn(first_results)) : "score" \notin DOMAIN r

\* mutant of SeedUnfiltered: OrderedDict.fromkeys of line 104 is dropped
SeedUnfilteredNoDedupe(first_results) ==
    LET kept == WithMbSn(first_results)
        first_sorted == SortedDesc([n \in DOMAIN kept |-> <<kept[n], kept[n]["score"]>>])
        listed == [n \in DOMAIN first_sorted |-> first_sorted[n][1]["mb_sn"]]
    IN IF final_count /= None
       THEN Take(listed, Max(final_count[1] * 10, WideCount))
       ELSE listed

\* mutant of SeedUnfiltered: the candidate list is cut to final_count at
\* line 107
SeedUnfilteredEarlyCut(first_results) ==
    LET kept == WithMbSn(first_results)
        first_sorted == SortedDesc([n \in DOMAIN kept |-> <<kept[n], kept[n]["score"]>>])
        deduped == FromKeys([n \in DOMAIN first_sorted |-> first_sorted[n][1]["mb_sn"]])
    IN IF final_count /= None
       THEN Take(deduped, final_count[1])
       ELSE deduped

\* lines 99-107: unfiltered seeding
SeedUnfiltered(first_results) ==
    LET kept == WithMbSn(first_results)
        first_sorted == SortedDesc([n \in DOMAIN kept |-> <<kept[n], kept[n]["score"]>>])
        deduped == FromKeys([n \in DOMAIN first_sorted |-> first_sorted[n][1]["mb_sn"]])
    IN IF final_count /= None
       THEN Take(deduped, Max(final_count[1] * 10, WideCount))
       ELSE deduped

----------------------------------------------------------------------------
(* Stages 2..N, lines 114-186 *)

\* mutant of SearchCount: the cap of lines 132 and 135 is dropped
SearchCountUncapped(has_category_filter) ==
    LET search_count ==
            IF final_count = None /\ has_category_filter
            THEN Len(candidate_mb_sns) * 3
            ELSE Len(candidate_mb_sns) * 2
    IN Max(search_count, 1)

\* lines 130-137
SearchCount(has_category_filter) ==
    LET search_count ==
            IF final_count = None /\ has_category_filter
            THEN Min(Len(candidate_mb_sns) * 3, WideCount)
            ELSE Min(Len(candidate_mb_sns) * 2, WideCount)
    IN Max(search_count, 1)

\* lines 148-165: metadata-filtered refinement
RefineFiltered(results) ==
    LET filtered_mb_sns ==
            {results[n]["mb_sn"] : n \in
                {m \in DOMAIN results :
                    /\ "mb_sn" \in DOMAIN results[m]
                    /\ results[m]["mb_sn"] \in Range(candidate_mb_sns)}}
        mb_sn_scores == BestScores(results, filtered_mb_sns, <<>>)
        sorted_mb_sns == SortedDesc(mb_sn_scores)
    IN DictKeys(sorted_mb_sns)

\* mutant of RefineUnfiltered: the test `mb_sn in candidate_mb_sns` of
\* line 172 is dropped
RefineUnfilteredUnchecked(results) ==
    LET mb_sn_scores == BestScores(results, MbSnsOf(results), <<>>)
        sorted_mb_sns == SortedDesc(mb_sn_scores)
        next_candidate_count ==
            IF final_count = None
            THEN Len(sorted_mb_sns)
            ELSE Max(final_count[1] * 3, WideCount)
    IN DictKeys(Take(sorted_mb_sns, next_candidate_count))

\* lines 167-186: unfiltered refinement
RefineUnfiltered(results) ==
    LET mb_sn_scores == BestScores(results, Range(candidate_mb_sns), <<>>)
        sorted_mb_sns == SortedDesc(mb_sn_scores)
        next_candidate_count ==
            IF final_count = None
            THEN Len(sorted_mb_sns)
            ELSE Max(final_count[1] * 3, WideCount)
    IN DictKeys(Take(sorted_mb_sns, next_candidate_count))

----------------------------------------------------------------------------
(* Final ranking, lines 196-219 *)

\* mutant of FinalScores: every record of a candidate is kept, without
\* the best-score merge of lines 202-203
FinalScoresUnmerged(response) ==
    LET kept == SelectSeq(response,
                    LAMBDA r : Get(r, "mb_sn", "") \in Range(candidate_mb_sns))
    IN [n \in DOMAIN kept |-> <<kept[n]["mb_sn"], Get(kept[n], "score", 0)>>]

\* mutant of FinalScores: the comparison of line 202 is dropped, the last
\* score of an identifier overwrites the earlier ones
FinalScoresLastWins(response) ==
    LET best == BestScores(response, Range(candidate_mb_sns), <<>>)
        last(mb_sn) ==
            CHOOSE m \in DOMAIN response :
                /\ Get(response[m], "mb_sn", "") = mb_sn
                /\ \A k \in DOMAIN response :
                       Get(response[k], "mb_sn", "") = mb_sn => k <= m
    IN [n \in DOMAIN best |->
           <<best[n][1], Get(response[last(best[n][1])], "score", 0)>>]

\* lines 196-203
FinalScores(response) == BestScores(response, Range(candidate_mb_sns), <<>>)

\* mutant of FinalMbSns: the sort of line 205 is dropped
FinalMbSnsUnsorted(response) ==
    LET final_mb_sns == DictKeys(FinalScores(response))
    IN IF final_count /= None
       THEN Take(final_mb_sns, final_count[1])
       ELSE final_mb_sns

\* lines 205-210
FinalMbSns(response) ==
    LET final_sorted == SortedDesc(FinalScores(response))
        final_mb_sns == DictKeys(final_sorted)
    IN IF final_count /= None
       THEN Take(final_mb_sns, final_count[1])
       ELSE final_mb_sns

\* line 219
FinalResult(response) ==
    LET final_scores == FinalScores(response)
        final_mb_sns == FinalMbSns(response)
    IN [n \in DOMAIN final_mb_sns |->
           [mb_sn |-> final_mb_sns[n],
            score |-> IF DictHas(final_scores, final_mb_sns[n])
                      THEN DictGet(final_scores, final_mb_sns[n])
                      ELSE 0]]

----------------------------------------------------------------------------
(* The searcher contract of one response, recorded as history *)

\* the response has at most top_k records and, under an allow-list, no
\* identifier outside it
KeepsContract(response) ==
    LET call == last_call[1]
    IN [top_k |-> Len(response) <= call.top_k,
        allow |-> call.filter_mb_sns = None
                    \/ MbSnsOf(response) \subseteq Range(call.filter_mb_sns[1])]

Observe(response) ==
    LET k == KeepsContract(response)
    IN [top_k |-> searcher_ok.top_k /\ k.top_k,
        allow |-> searcher_ok.allow /\ k.allow]

----------------------------------------------------------------------------
(* The run *)

\* the arguments of one call of filter_by_categories: a prefix of
\* AllCategories (labels are opaque and distinct), embeddings and non-empty
\* filter specs for some of its categories, final_count None or 1..MaxFinal
Prefixes == {SubSeq(AllCategories, 1, n) : n \in 0..Len(AllCategories)}

Init ==
    /\ category_order \in Prefixes
    /\ embeddings \in
           {[c \in S |-> <<"vec", c>>] : S \in SUBSET Range(category_order)}
    /\ topic_filters \in
           {[c \in S |-> [age_min |-> 30]] : S \in SUBSET Range(category_order)}
    /\ final_count \in {None} \cup {Some(k) : k \in 1..MaxFinal}
    /\ pc = "start"
    /\ i = 2
    /\ candidate_mb_sns = <<>>
    /\ call_log = <<>>
    /\ last_call = None
    /\ final_results = <<>>
    /\ result = <<>>
    /\ raised = ""
    /\ searcher_ok = [top_k |-> TRUE, allow |-> TRUE]

args == <<category_order, embeddings, final_count, topic_filters>>

\* self.searcher.search_by_category(...): the call is issued and the run
\* waits for the response
Search(stage, query_embedding, category, top_k, filter_mb_sns, metadata_filter) ==
    /\ call_log' = Append(call_log, stage)
    /\ last_call' = Some([query_embedding |-> query_embedding,
                          category |-> category,
                          top_k |-> top_k,
                          filter_mb_sns |-> filter_mb_sns,
                          metadata_filter |-> metadata_filter])

\* return value
Return(value) ==
    /\ pc' = "done"
    /\ result' = value

\* lines 35-36: empty category_order
ReturnNoCategories ==
    /\ pc = "start"
    /\ category_order = <<>>
    /\ Return(<<>>)
    /\ UNCHANGED <<args, i, candidate_mb_sns, call_log, last_call,
                   final_results, raised, searcher_ok>>

\* mutant of ReturnNoFirstEmbedding: the test of line 44 is dropped and
\* the stage-1 call goes out with embedding None
SearchWithoutFirstEmbedding ==
    /\ pc = "start"
    /\ category_order /= <<>>
    /\ category_order[1] \notin DOMAIN embeddings
    /\ Search(1, None, category_order[1],
              InitialCount(HasFilter(category_order[1])),
              None, Some(FilterOf(category_order[1])))
    /\ pc' = "seed"
    /\ UNCHANGED <<args, i, candidate_mb_sns, final_results, result,
                   raised, searcher_ok>>

\* lines 41-45: no embedding for the first category
ReturnNoFirstEmbedding ==
    /\ pc = "start"
    /\ category_order /= <<>>
    /\ category_order[1] \notin DOMAIN embeddings
    /\ Return(<<>>)
    /\ UNCHANGED <<args, i, candidate_mb_sns, call_log, last_call,
                   final_results, raised, searcher_ok>>

\* lines 41-72: the stage-1 call
SearchFirst ==
    /\ pc = "start"
    /\ category_order /= <<>>
    /\ category_order[1] \in DOMAIN embeddings
    /\ LET first_category == category_order[1]
           first_embedding == embeddings[first_category]
           first_filter == FilterOf(first_category)
           has_metadata_filter == HasFilter(first_category)
           initial_count == InitialCount(has_metadata_filter)
       IN Search(1, first_embedding, first_category, initial_count,
                 None, Some(first_filter))
    /\ pc' = "seed"
    /\ UNCHANGED <<args, i, candidate_mb_sns, final_results, result,
                   raised, searcher_ok>>

\* lines 74-111: the stage-1 response builds the candidate list
Seed(first_results) ==
    /\ pc = "seed"
    /\ searcher_ok' = Observe(first_results)
    /\ LET has_metadata_filter == HasFilter(category_order[1])
       IN IF ~has_metadata_filter /\ SeedRaises(first_results)
          THEN /\ pc' = "raised"
               /\ raised' = "KeyError: 'score'"
               /\ UNCHANGED <<candidate_mb_sns, result>>
          ELSE LET candidates == IF has_metadata_filter
                                 THEN SeedFiltered(first_results)
                                 ELSE SeedUnfiltered(first_results)
               IN /\ candidate_mb_sns' = candidates
                  /\ raised' = raised
                  /\ IF Len(candidates) = 0
                     THEN Return(<<>>)
                     ELSE pc' = "loop" /\ result' = result
    /\ UNCHANGED <<args, i, call_log, last_call, final_results>>

\* lines 114-118: a later category without an embedding is skipped
SkipCategory ==
    /\ pc = "loop"
    /\ i <= Len(category_order)
    /\ category_order[i] \notin DOMAIN embeddings
    /\ i' = i + 1
    /\ UNCHANGED <<args, pc, candidate_mb_sns, call_log, last_call,
                   final_results, result, raised, searcher_ok>>

\* lines 125-127: break on an empty candidate list
BreakEmpty ==
    /\ pc = "loop"
    /\ i <= Len(category_order)
    /\ category_order[i] \in DOMAIN embeddings
    /\ Len(candidate_mb_sns) = 0
    /\ pc' = "rank"
    /\ UNCHANGED <<args, i, candidate_mb_sns, call_log, last_call,
                   final_results, result, raised, searcher_ok>>

\* mutant of SearchCategory: the allow-list is passed in another order
\* than the candidate list has
SearchCategoryReordered ==
    /\ pc = "loop"
    /\ i <= Len(category_order)
    /\ category_order[i] \in DOMAIN embeddings
    /\ Len(candidate_mb_sns) /= 0
    /\ LET category == category_order[i]
           reversed == [n \in DOMAIN candidate_mb_sns |->
                           candidate_mb_sns[Len(candidate_mb_sns) + 1 - n]]
       IN Search(i, embeddings[category], category,
                 SearchCount(HasFilter(category)),
                 Some(reversed), Some(FilterOf(category)))
    /\ pc' = "refine"
    /\ UNCHANGED <<args, i, candidate_mb_sns, final_results, result,
                   raised, searcher_ok>>

\* lines 114-145: the refinement call of category_order[i]
SearchCategory ==
    /\ pc = "loop"
    /\ i <= Len(category_order)
    /\ category_order[i] \in DOMAIN embeddings
    /\ Len(candidate_mb_sns) /= 0
    /\ LET category == category_order[i]
           embedding == embeddings[category]
           category_filter == FilterOf(category)
           search_count == SearchCount(HasFilter(category))
       IN Search(i, embedding, category, search_count,
                 Some(candidate_mb_sns), Some(category_filter))
    /\ pc' = "refine"
    /\ UNCHANGED <<args, i, candidate_mb_sns, final_results, result,
                   raised, searcher_ok>>

\* mutant of Refine: the loop does not advance, the same category is
\* queried again
RefineRetry(results) ==
    /\ pc = "refine"
    /\ searcher_ok' = Observe(results)
    /\ candidate_mb_sns' = IF HasFilter(category_order[i])
                           THEN RefineFiltered(results)
                           ELSE RefineUnfiltered(results)
    /\ pc' = "loop"
    /\ UNCHANGED <<args, i, call_log, last_call, final_results, result, raised>>

\* lines 147-186: the refinement response re-scores the candidate list
Refine(results) ==
    /\ pc = "refine"
    /\ searcher_ok' = Observe(results)
    /\ candidate_mb_sns' = IF HasFilter(category_order[i])
                           THEN RefineFiltered(results)
                           ELSE RefineUnfiltered(results)
    /\ i' = i + 1
    /\ pc' = "loop"
    /\ UNCHANGED <<args, call_log, last_call, final_results, result, raised>>

\* line 114: the loop is exhausted
EndLoop ==
    /\ pc = "loop"
    /\ i > Len(category_order)
    /\ pc' = "rank"
    /\ UNCHANGED <<args, i, candidate_mb_sns, call_log, last_call,
                   final_results, result, raised, searcher_ok>>

\* line 190: embeddings[category_order[-1]] raises KeyError when the last
\* category has no embedding; the arguments are evaluated before the call
RaiseNoLastEmbedding ==
    /\ pc = "rank"
    /\ category_order[Len(category_order)] \notin DOMAIN embeddings
    /\ pc' = "raised"
    /\ raised' = "KeyError: category_order[-1]"
    /\ UNCHANGED <<args, i, candidate_mb_sns, call_log, last_call,
                   final_results, result, searcher_ok>>

\* lines 189-194: the final-ranking call; metadata_filter is not passed
SearchFinal ==
    /\ pc = "rank"
    /\ category_order[Len(category_order)] \in DOMAIN embeddings
    /\ LET last_category == category_order[Len(category_order)]
       IN Search(0, embeddings[last_category], last_category,
                 Len(candidate_mb_sns), Some(candidate_mb_sns), None)
    /\ pc' = "final"
    /\ UNCHANGED <<args, i, candidate_mb_sns, final_results, result,
                   raised, searcher_ok>>

\* lines 196-221: the final response is ranked and returned
Rank(response) ==
    /\ pc = "final"
    /\ searcher_ok' = Observe(response)
    /\ final_results' = response
    /\ Return(FinalResult(response))
    /\ UNCHANGED <<args, i, candidate_mb_sns, call_log, last_call, raised>>

Next ==
    \/ ReturnNoCategories
    \/ ReturnNoFirstEmbedding
    \/ SearchFirst
    \/ \E first_results \in Responses : Seed(first_results)
    \/ SkipCategory
    \/ BreakEmpty
    \/ SearchCategory
    \/ \E results \in Responses : Refine(results)
    \/ EndLoop
    \/ RaiseNoLastEmbedding
    \/ SearchFinal
    \/ \E response \in Responses : Rank(response)

Spec == Init /\ [][Next]_vars

----------------------------------------------------------------------------
(* The search widths.  The widths of lines 53-64 and 130-137 depend only  *)
(* on final_count, on the metadata filter and on the length of the        *)
(* candidate list, so they are checked on runs that stop at the searcher  *)
(* call: from the start of a call with final_count around the thresholds, *)
(* and from the head of the loop (line 114) after a stage 1 that seeded a *)
(* long candidate list of distinct identifiers 1..n.                      *)

InitArgsWide ==
    /\ category_order \in Prefixes
    /\ embeddings \in
           {[c \in S |-> <<"vec", c>>] : S \in SUBSET Range(category_order)}
    /\ topic_filters \in
           {[c \in S |-> [age_min |-> 30]] : S \in SUBSET Range(category_order)}
    /\ final_count \in
           {None} \cup {Some(k) : k \in (1..MaxFinal) \cup WideFinalCounts}

\* the start of a call
InitStartWide ==
    /\ InitArgsWide
    /\ pc = "start"
    /\ i = 2
    /\ candidate_mb_sns = <<>>
    /\ call_log = <<>>
    /\ last_call = None
    /\ final_results = <<>>
    /\ result = <<>>
    /\ raised = ""
    /\ searcher_ok = [top_k |-> TRUE, allow |-> TRUE]

\* the head of the loop after stage 1 (lines 66-111) seeded n candidates
InitLoopWide ==
    /\ InitArgsWide
    /\ category_order /= <<>>
    /\ category_order[1] \in DOMAIN embeddings
    /\ pc = "loop"
    /\ i = 2
    /\ candidate_mb_sns \in {[n \in 1..len |-> n] : len \in CandidateLengths}
    /\ call_log = <<1>>
    /\ last_call = Some([query_embedding |-> embeddings[category_order[1]],
                         category |-> category_order[1],
                         top_k |-> InitialCount(HasFilter(category_order[1])),
                         filter_mb_sns |-> None,
                         metadata_filter |-> Some(FilterOf(category_order[1]))])
    /\ final_results = <<>>
    /\ result = <<>>
    /\ raised = ""
    /\ searcher_ok = [top_k |-> Len(candidate_mb_sns) <= last_call[1].top_k,
                      allow |-> TRUE]

InitWidth == InitStartWide \/ InitLoopWide

NextWidth ==
    \/ ReturnNoCategories
    \/ ReturnNoFirstEmbedding
    \/ SearchFirst
    \/ SkipCategory
    \/ SearchCategory
    \/ EndLoop

SpecWidth == InitWidth /\ [][NextWidth]_vars

----------------------------------------------------------------------------
(* Vocabulary of the properties *)

\* the stages the loop of line 114 would query: every later category
\* whose embedding is present, in category_order order
RECURSIVE PresentFrom(_)
PresentFrom(n) ==
    IF n > Len(category_order) THEN <<>>
    ELSE IF category_order[n] \in DOMAIN embeddings
         THEN <<n>> \o PresentFrom(n + 1)
         ELSE PresentFrom(n + 1)

ExpectedStages == <<1>> \o PresentFrom(2)

\* a later category of category_order has no embedding
LaterEmbeddingMissing ==
    \E n \in 2..Len(category_order) : category_order[n] \notin DOMAIN embeddings

\* stage 1 has produced a non-empty candidate list
SeededNonEmpty ==
    \/ pc \in {"loop", "refine", "rank", "final"}
    \/ pc = "done" /\ Len(call_log) >= 2
    \/ raised = "KeyError: category_order[-1]"

\* the run returned from the final ranking (line 221)
Ranked == pc = "done" /\ call_log /= <<>> /\ call_log[Len(call_log)] = 0

ResultMbSns == {result[n].mb_sn : n \in DOMAIN result}

\* the best score the final response gave an identifier, 0.0 without one
SurvivorScore(mb_sn) ==
    LET d == BestScores(final_results, {mb_sn}, <<>>)
    IN IF d = <<>> THEN 0 ELSE d[1][2]

RepeatsMbSn(response) ==
    \E m, n \in DOMAIN response :
        /\ m /= n
        /\ "mb_sn" \in DOMAIN response[m]
        /\ "mb_sn" \in DOMAIN response[n]
        /\ response[m]["mb_sn"] = response[n]["mb_sn"]

----------------------------------------------------------------------------
(* C1: when category_order has at least two entries, stage 1 seeded a     *)
(* non-empty candidate list and some later category (the last one         *)
(* included) has no embedding, the run raises no error and issues no      *)
(* searcher call for a category without an embedding.                     *)
C1_MissingLaterEmbeddingIsNoError ==
    (Len(category_order) >= 2 /\ SeededNonEmpty /\ LaterEmbeddingMissing)
        => /\ raised = ""
           /\ \A n \in Range(call_log) :
                  n >= 2 => category_order[n] \in DOMAIN embeddings

(* C2: with final_count = k, more than k candidates after the last stage  *)
(* and every searcher response within top_k and the allow-list, the       *)
(* returned list has exactly k entries and they are the k highest-scored  *)
(* survivors.                                                             *)
C2_ExactlyTopK ==
    (/\ Ranked
     /\ final_count /= None
     /\ Len(candidate_mb_sns) > final_count[1]
     /\ searcher_ok.top_k /\ searcher_ok.allow)
        => /\ Len(result) = final_count[1]
           /\ ResultMbSns \subseteq Range(candidate_mb_sns)
           /\ \A a \in ResultMbSns :
                  \A b \in Range(candidate_mb_sns) \ ResultMbSns :
                      SurvivorScore(a) >= SurvivorScore(b)

(* C3: with final_count unset, every identifier of the candidate list     *)
(* after the last stage is in the returned list; one that the final       *)
(* response does not mention is returned with score 0.0.                  *)
C3_AllSurvivorsReturned ==
    (Ranked /\ final_count = None)
        => \A mb_sn \in Range(candidate_mb_sns) :
               \E n \in DOMAIN result :
                   /\ result[n].mb_sn = mb_sn
                   /\ mb_sn \notin MbSnsOf(final_results) => result[n].score = 0

(* C4: no searcher call is ever issued with an empty allow-list.          *)
C4_NoEmptyAllowList ==
    (last_call /= None /\ last_call[1].filter_mb_sns /= None)
        => last_call[1].filter_mb_sns[1] /= <<>>

(* C5: records without identifier or score never make the run raise; a    *)
(* record without identifier never enters the candidate list or the       *)
(* returned list.                                                         *)
C5_MalformedRecordsTolerated ==
    /\ raised /= "KeyError: 'score'"
    /\ "" \notin Range(candidate_mb_sns)
    /\ "" \notin ResultMbSns

(* C6: subset monotonicity.  Whatever the searcher returns, no step after *)
(* seeding adds an identifier to the candidate list, the returned         *)
(* identifiers are candidates of the last stage, and once stage 1 has     *)
(* seeded the set S, candidates and returned identifiers stay within S.   *)
C6_SubsetMonotonicity ==
    /\ [][/\ pc \notin {"start", "seed"}
              => Range(candidate_mb_sns') \subseteq Range(candidate_mb_sns)
          /\ pc' = "done"
              => {result'[n].mb_sn : n \in DOMAIN result'}
                     \subseteq Range(candidate_mb_sns')]_vars
    /\ \A S \in SUBSET Ids :
           [](pc = "loop" /\ i = 2 /\ Range(candidate_mb_sns) = S
                  => [](Range(candidate_mb_sns) \subseteq S /\ ResultMbSns \subseteq S))

\* a refinement response named an identifier outside the allow-list and the
\* candidate list that came out of it is not empty
C6_Witness ==
    /\ pc = "loop"
    /\ i = 3
    /\ ~searcher_ok.allow
    /\ candidate_mb_sns /= <<>>

(* C7: the returned list holds no identifier twice, also when responses   *)
(* repeat identifiers.                                                    *)
C7_NoDuplicates ==
    \A m, n \in DOMAIN result : result[m].mb_sn = result[n].mb_sn => m = n

\* the final response repeated an identifier that is returned
C7_Witness ==
    /\ Ranked
    /\ RepeatsMbSn(final_results)
    /\ result /= <<>>

(* C8: the returned list is in non-increasing score order.                *)
C8_DescendingScores ==
    \A n \in 1..(Len(result) - 1) : result[n].score >= result[n + 1].score

\* two entries with different scores are returned, and the final response
\* listed the lower-scored one first
C8_Witness ==
    /\ Ranked
    /\ Len(result) = 2
    /\ result[1].score > result[2].score
    /\ Len(final_results) = 2
    /\ Get(final_results[1], "mb_sn", "") = result[2].mb_sn

(* C9: with an empty category_order, or without an embedding for its      *)
(* first category, the run returns the empty list and never calls the     *)
(* searcher.                                                              *)
C9_EmptyWithoutSeed ==
    (category_order = <<>> \/ category_order[1] \notin DOMAIN embeddings)
        => /\ call_log = <<>>
           /\ last_call = None
           /\ result = <<>>
           /\ raised = ""
           /\ pc \in {"start", "done"}

\* a run with embeddings for later categories only has returned
C9_Witness ==
    /\ pc = "done"
    /\ Len(category_order) >= 2
    /\ category_order[1] \notin DOMAIN embeddings
    /\ category_order[2] \in DOMAIN embeddings

(* C10 as stated: every run that seeded a non-empty candidate list and    *)
(* returned has called the searcher exactly once for stage 1, once for    *)
(* each later category whose embedding is present, in order, and once     *)
(* more for the final ranking.                                            *)
C10_OneCallPerPresentStage ==
    (pc = "done" /\ SeededNonEmpty) => call_log = Append(ExpectedStages, 0)

(* C10 as amended: the calls issued are always a prefix of (stage 1, each *)
(* later category whose embedding is present, in order), followed by at   *)
(* most one final-ranking call, so no stage is queried twice; a run that  *)
(* reaches the final ranking with a non-empty candidate list has called   *)
(* every such stage exactly once and the final ranking exactly once; a    *)
(* run that returns without final ranking has called the searcher at most *)
(* once and returns the empty list; a run that raises has issued no       *)
(* final-ranking call.                                                    *)
C10_CallsFollowStageOrder ==
    /\ \E n \in 0..Len(ExpectedStages) :
           \/ call_log = SubSeq(ExpectedStages, 1, n)
           \/ n >= 1 /\ call_log = Append(SubSeq(ExpectedStages, 1, n), 0)
    /\ (Ranked /\ candidate_mb_sns /= <<>>)
           => call_log = Append(ExpectedStages, 0)
    /\ (pc = "done" /\ ~Ranked) => (Len(call_log) <= 1 /\ result = <<>>)
    /\ pc = "raised" => 0 \notin Range(call_log)

\* the middle category was skipped, the other two stages and the final
\* ranking were called, and a non-empty list is returned
C10_Witness ==
    /\ pc = "done"
    /\ call_log = <<1, 3, 0>>
    /\ result /= <<>>

(* C11: the stage-1 call requests top_k = 10000 when the first category   *)
(* has a non-empty metadata filter or final_count is unset, and           *)
(* max(final_count * 10, 2000) otherwise (2000 for final_count = 100);    *)
(* it carries no identifier allow-list.                                   *)
C11_InitialWidth ==
    pc = "seed" =>
        LET call == last_call[1]
            filtered == DOMAIN Get(topic_filters, category_order[1], <<>>) /= {}
        IN /\ call.filter_mb_sns = None
           /\ (filtered \/ final_count = None) => call.top_k = 10000
           /\ (~filtered /\ final_count /= None)
                  => /\ call.top_k >= final_count[1] * 10
                     /\ call.top_k >= 2000
                     /\ call.top_k \in {final_count[1] * 10, 2000}
           /\ (~filtered /\ final_count = Some(100)) => call.top_k = 2000

\* without a filter, final_count = 201 asks stage 1 for 2010 results
C11_Witness ==
    /\ pc = "seed"
    /\ final_count = Some(201)
    /\ category_order[1] \notin DOMAIN topic_filters
    /\ last_call[1].top_k = 2010

(* C16: every refinement call requests top_k = min(3 * |candidates|,      *)
(* 10000) when final_count is unset and the stage has a non-empty         *)
(* metadata filter, min(2 * |candidates|, 10000) otherwise, and           *)
(* 1 <= top_k <= 10000.                                                   *)
C16_RefinementWidth ==
    pc = "refine" =>
        LET call == last_call[1]
            filtered == DOMAIN Get(topic_filters, category_order[i], <<>>) /= {}
            factor == IF final_count = None /\ filtered THEN 3 ELSE 2
            wanted == factor * Len(candidate_mb_sns)
        IN /\ call.top_k = IF wanted <= 10000 THEN wanted ELSE 10000
           /\ 1 <= call.top_k
           /\ call.top_k <= 10000

\* 3334 candidates under a metadata filter without final_count: 3 * 3334
\* exceeds the cap
C16_Witness ==
    /\ pc = "refine"
    /\ final_count = None
    /\ category_order[i] \in DOMAIN topic_filters
    /\ Len(candidate_mb_sns) = 3334
    /\ last_call[1].top_k = 10000

(* C12: once a refinement stage has left the candidate list empty, no     *)
(* refinement call is issued any more, the run does not raise, and it     *)
(* returns the empty list.                                                *)
C12_EmptyCandidatesReturnEmpty ==
    (SeededNonEmpty /\ candidate_mb_sns = <<>>)
        => /\ pc /= "refine"
           /\ raised = ""
           /\ pc = "done" => result = <<>>

(* C13: the allow-list of every refinement call and of the final-ranking  *)
(* call is the candidate list as the most recent stage that ran left it   *)
(* (same identifiers, same order): the list changes only when the         *)
(* response of stage 1 or of a refinement stage is processed, and a call  *)
(* that waits for its response has the current list as allow-list.        *)
C13_AllowListIsLatestCandidates ==
    /\ [](pc \in {"refine", "final"}
              => last_call[1].filter_mb_sns = Some(candidate_mb_sns))
    /\ [][/\ (call_log' /= call_log /\ call_log /= <<>>)
                 => /\ last_call'[1].filter_mb_sns = Some(candidate_mb_sns)
                    /\ candidate_mb_sns' = candidate_mb_sns
          /\ candidate_mb_sns' /= candidate_mb_sns
                 => pc \in {"seed", "refine"}]_vars

\* the second category was skipped: the third stage is called with the two
\* candidates of stage 1 as allow-list
C13_Witness ==
    /\ pc = "refine"
    /\ call_log = <<1, 3>>
    /\ Len(candidate_mb_sns) = 2
    /\ last_call[1].filter_mb_sns = Some(candidate_mb_sns)

(* C14: the final-ranking call targets the last category of               *)
(* category_order with its embedding, top_k equal to the size of the      *)
(* candidate list, that list as allow-list and no metadata filter; every  *)
(* returned score is the largest score the final response gave that       *)
(* identifier (0.0 for a record without score).                           *)
C14_FinalRanking ==
    /\ (pc = "final" \/ Ranked)
           => LET last_category == category_order[Len(category_order)]
              IN last_call[1] =
                     [query_embedding |-> embeddings[last_category],
                      category |-> last_category,
                      top_k |-> Len(candidate_mb_sns),
                      filter_mb_sns |-> Some(candidate_mb_sns),
                      metadata_filter |-> None]
    /\ Ranked
           => \A n \in DOMAIN result :
                  LET given == {Get(final_results[m], "score", 0) : m \in
                                   {k \in DOMAIN final_results :
                                       Get(final_results[k], "mb_sn", "") = result[n].mb_sn}}
                  IN /\ result[n].score \in given
                     /\ \A x \in given : x <= result[n].score

\* the final response gave one identifier the scores 1 and then 0: it is
\* returned with 1
C14_Witness ==
    /\ Ranked
    /\ final_results = <<[mb_sn |-> "p1", score |-> 1], [mb_sn |-> "p1", score |-> 0]>>
    /\ result = <<[mb_sn |-> "p1", score |-> 1]>>

(* C15: the candidate list never holds an identifier twice.               *)
C15_CandidatesDistinct ==
    \A m, n \in DOMAIN candidate_mb_sns :
        candidate_mb_sns[m] = candidate_mb_sns[n] => m = n

\* two candidates have come through unfiltered seeding and an unfiltered
\* refinement stage
C15_Witness ==
    /\ pc = "loop"
    /\ call_log = <<1, 2>>
    /\ topic_filters = <<>>
    /\ Len(candidate_mb_sns) = 2

====
